---- MODULE Spec2Model ----
(***************************************************************************)
(* Model of the audio transcription pipeline of services/geminiService.ts: *)
(* processAudioWithGemini (size routing), processSingleChunk (one remote   *)
(* call and the mapping of its reply), processChunkedAudio (decode,        *)
(* resample, 60 s windows, serial remote calls, offsetting, sort).         *)
(*                                                                         *)
(* Time is kept in ticks of one sample at 16 kHz (1 s = SAMPLE_RATE        *)
(* ticks): resampledBuffer.duration is length / 16000, so every duration   *)
(* and every window boundary of the code is a whole number of ticks.       *)
(* A JavaScript object is a record whose DOMAIN is the set of properties   *)
(* that hold a number or a string; a property that is undefined or NaN is  *)
(* absent from the DOMAIN.                                                 *)
(***************************************************************************)
EXTENDS Integers, Sequences, FiniteSets, TLC

\* ------------------------------------------------------------ bounds
\* Longest input: MaxFullWindows whole windows plus a remainder.
MaxFullWindows == 2
\* Most segments the remote service returns over one job.
MaxSegments == 2
\* Largest value of the millisecond clock read by Date.now().
MaxClock == 1

\* ------------------------------------------------- program constants
CHUNK_THRESHOLD_BYTES == 2621440
CHUNK_DURATION_SECONDS == 60
SAMPLE_RATE == 16000

\* n seconds, in ticks.
Sec(n) == n * SAMPLE_RATE
\* The window length of the chunking loop, in ticks.
ChunkTicks == Sec(CHUNK_DURATION_SECONDS)

Min(a, b) == IF a < b THEN a ELSE b
Range(s) == {s[i] : i \in DOMAIN s}

\* ------------------------------------------------------------ inputs
\* File sizes around the routing threshold.
FileSizes ==
  {1, CHUNK_THRESHOLD_BYTES - 1, CHUNK_THRESHOLD_BYTES, CHUNK_THRESHOLD_BYTES + 1}

\* What is left after the whole windows: nothing, one sample, 5 s, one
\* sample short of a window.
Remainders == {0, 1, Sec(5), ChunkTicks - 1}

\* Durations the decoder and resampler can hand to the chunking loop.
Durations ==
  {q * ChunkTicks + r : q \in 0..MaxFullWindows, r \in Remainders}

\* Elements of a reply array. GoodItem and LateItem carry the four required
\* fields; LateItem lies past the end of a 60 s window; BadItem has no
\* startTime.
GoodItem ==
  [startTime |-> Sec(0), endTime |-> Sec(5),
   originalText |-> "hello", translatedText |-> "ni hao"]
LateItem ==
  [startTime |-> Sec(70), endTime |-> Sec(75),
   originalText |-> "late", translatedText |-> "wan"]
BadItem ==
  [endTime |-> Sec(5), originalText |-> "bad", translatedText |-> "huai"]
Items == {GoodItem, LateItem, BadItem}

RECURSIVE SeqsUpTo(_, _)
\* All sequences over S of length at most n.
SeqsUpTo(S, n) ==
  IF n = 0 THEN {<<>>}
  ELSE LET shorter == SeqsUpTo(S, n - 1)
       IN shorter \cup {Append(s, x) : s \in {t \in shorter : Len(t) = n - 1}, x \in S}

\* response.text of the remote reply: absent, not JSON, a JSON object, or a
\* JSON array of at most n elements.
ResponseTexts(n) ==
  {[kind |-> "none"], [kind |-> "garbage"], [kind |-> "object"]}
    \cup {[kind |-> "array", items |-> s] : s \in SeqsUpTo(Items, n)}

\* Messages of a rejected generateContent call.  An error message is a
\* sequence of text fragments; includes(x) asks for a fragment.
MSG_RPC == <<"Rpc failed", " due to ", "xhr error">>
MSG_XHR == <<"xhr error">>
MSG_QUOTA == <<"429 Resource exhausted">>
TransportMessages == {MSG_RPC, MSG_XHR}
RejectMessages == TransportMessages \cup {MSG_QUOTA}

\* What one remote call can end in.
RemoteOutcomes(n) ==
  {[kind |-> "reject", message |-> m] : m \in RejectMessages}
    \cup {[kind |-> "text", text |-> t] : t \in ResponseTexts(n)}

\* ---------------------------------------------------- pure functions
\* String(n) of a time held in ticks, printed in seconds.  Window starts are
\* whole seconds; a fraction is kept as a distinct suffix.
NumberToString(t) ==
  IF t % SAMPLE_RATE = 0 THEN ToString(t \div SAMPLE_RATE)
  ELSE ToString(t \div SAMPLE_RATE) \o "+" \o ToString(t % SAMPLE_RATE) \o "/16000"

\* secs.toString().padStart(2, '0')
PadStart2(n) == IF n < 10 THEN "0" \o ToString(n) ELSE ToString(n)

\* formatTime: `${mins}:${secs padded to 2}` with mins = floor(seconds / 60)
\* and secs = floor(seconds % 60).
formatTime(t) ==
  LET mins == t \div Sec(60)
      secs == (t % Sec(60)) \div SAMPLE_RATE
  IN ToString(mins) \o ":" \o PadStart2(secs)

\* error.message?.includes(fragment)
Includes(message, fragment) == fragment \in Range(message)

MSG_NO_KEY == <<"API Key is missing from environment variables.">>
MSG_NO_TEXT == <<"No response text received.">>
MSG_BAD_JSON == <<"Failed to parse JSON response.">>
MSG_NOT_ARRAY == <<"Model response was not an array.">>
MSG_DECODE == <<"Unable to decode audio data">>
MSG_NETWORK ==
  <<"Network error during upload.",
    " The file size might exceed the API's payload limit.",
    " Please try a smaller file or ensure your network is stable.">>
FormatMessages == {MSG_NO_TEXT, MSG_BAD_JSON, MSG_NOT_ARRAY}

\* Mutant of ChunkFailureMessage: the message names the window's end.
ChunkFailureMessageAtEnd(currentTime) ==
  <<"Failed to process audio segment at ", formatTime(currentTime + ChunkTicks),
    ". API Error.">>

\* The message thrown by the catch of the chunking loop.
ChunkFailureMessage(currentTime) ==
  <<"Failed to process audio segment at ", formatTime(currentTime), ". API Error.">>

\* The catch of processAudioWithGemini: an error whose message includes
\* "Rpc failed" or "xhr error" is replaced, any other is rethrown.
RethrowTopLevel(message) ==
  IF Includes(message, "Rpc failed") \/ Includes(message, "xhr error")
  THEN MSG_NETWORK
  ELSE message

\* `seg-${Date.now()}-${index}`; index is that of Array.map, from 0.
LocalId(now, index) == "seg-" \o ToString(now) \o "-" \o ToString(index)

\* The properties of a reply element that processSingleChunk copies.
CopiedFields == {"startTime", "endTime", "originalText", "translatedText"}

\* One element of parsedData.map(...): a fresh id and the four properties,
\* each undefined when the element lacks it.
MapItem(item, now, index) ==
  [f \in {"id"} \cup (DOMAIN item \cap CopiedFields) |->
     IF f = "id" THEN LocalId(now, index) ELSE item[f]]

\* JSON.parse: throws for text that is not JSON.
JsonParses(text) == text.kind \in {"object", "array"}

\* Array.isArray(parsedData)
IsArray(text) == text.kind = "array"

\* processSingleChunk from the completion of generateContent on: the value
\* returned, or the error thrown.
processSingleChunk(outcome, now) ==
  IF outcome.kind = "reject" THEN [ok |-> FALSE, message |-> outcome.message]
  ELSE IF outcome.text.kind = "none" THEN [ok |-> FALSE, message |-> MSG_NO_TEXT]
  ELSE IF ~JsonParses(outcome.text) THEN [ok |-> FALSE, message |-> MSG_BAD_JSON]
  ELSE IF ~IsArray(outcome.text) THEN [ok |-> FALSE, message |-> MSG_NOT_ARRAY]
  ELSE [ok |-> TRUE,
        segments |-> [i \in 1..Len(outcome.text.items) |->
                        MapItem(outcome.text.items[i], now, i - 1)]]

\* Mutant of ChunkId: the window's start is left out of the id.
ChunkIdNoStart(currentTime, id) == "seg-" \o id

\* The id given to a segment of the window starting at currentTime.
ChunkId(currentTime, id) == "seg-" \o NumberToString(currentTime) \o "-" \o id

\* segments.map(seg => ({...seg, id, startTime + currentTime, endTime +
\* currentTime})): undefined + number is NaN, so a missing time stays missing.
AdjustSegment(seg, currentTime) ==
  [f \in DOMAIN seg |->
     CASE f = "id" -> ChunkId(currentTime, seg.id)
       [] f = "startTime" -> seg.startTime + currentTime
       [] f = "endTime" -> seg.endTime + currentTime
       [] OTHER -> seg[f]]

AdjustSegments(segments, currentTime) ==
  [i \in 1..Len(segments) |-> AdjustSegment(segments[i], currentTime)]

\* (a, b) => a.startTime - b.startTime; NaN counts as 0 in Array.sort.
CompareStart(a, b) ==
  IF "startTime" \in DOMAIN a /\ "startTime" \in DOMAIN b
  THEN a.startTime - b.startTime
  ELSE 0

RECURSIVE InsertSorted(_, _)
\* x put into sorted s after every element that does not compare greater.
InsertSorted(s, x) ==
  IF s = <<>> THEN <<x>>
  ELSE IF CompareStart(s[Len(s)], x) > 0
       THEN Append(InsertSorted(SubSeq(s, 1, Len(s) - 1), x), s[Len(s)])
       ELSE Append(s, x)

RECURSIVE SortByStart(_)
\* allSegments.sort(...): a stable sort, here by insertion.
SortByStart(s) ==
  IF s = <<>> THEN <<>>
  ELSE InsertSorted(SortByStart(SubSeq(s, 1, Len(s) - 1)), s[Len(s)])

\* Mutant of ChunkEnd: the window runs to the end of the audio.
ChunkEndWholeRest(currentTime, total) == total

\* Mutant of ChunkEnd: the window is not clamped to the duration.
ChunkEndUnclamped(currentTime, total) == currentTime + ChunkTicks

\* Math.min(currentTime + CHUNK_DURATION_SECONDS, totalDuration)
ChunkEnd(currentTime, total) == Min(currentTime + ChunkTicks, total)

\* Math.floor(time * sampleRate): a tick is one sample at SAMPLE_RATE.
SampleIndex(t) == t \div (Sec(1) \div SAMPLE_RATE)

\* The size of the header encodeWAV writes before the samples.
WAV_HEADER_BYTES == 44

\* new ArrayBuffer(44 + samples.length * 2): the size of the encoded blob.
WavByteLength(sampleCount) == WAV_HEADER_BYTES + sampleCount * 2

\* The window cut at currentTime and the blob encoded from it.
ChunkPayload(currentTime, total) ==
  [kind |-> "wav",
   start |-> currentTime,
   end |-> ChunkEnd(currentTime, total),
   startIndex |-> SampleIndex(currentTime),
   endIndex |-> SampleIndex(ChunkEnd(currentTime, total))]

\* The original file handed to processSingleChunk.
FilePayload(file) == [kind |-> "file", size |-> file.size]

\* Mutant of IsSmallFile: the comparison taken as "at most".
IsSmallFileInclusive(file) == file.size <= CHUNK_THRESHOLD_BYTES

\* audioFile.size < CHUNK_THRESHOLD_BYTES
IsSmallFile(file) == file.size < CHUNK_THRESHOLD_BYTES

\* Mutant of LoopContinues: the test taken as "at most".
LoopContinuesInclusive(currentTime, total) == currentTime <= total

\* currentTime < totalDuration, the test of the while loop.
LoopContinues(currentTime, total) == currentTime < total

\* Mutant of AwaitCall: the loop goes on without awaiting the call.
AwaitCallNotAwaited(outstanding, p) == outstanding

\* The calls outstanding once the awaited call p has settled.
AwaitCall(outstanding, p) == outstanding \ {p}

\* ------------------------------------------------------------- state
VARIABLES
  pc,             \* where the job is: idle, single, decode, chunk, done, failed
  apiKey,         \* whether process.env.API_KEY is set
  audioFile,      \* the file given to processAudioWithGemini
  totalDuration,  \* resampledBuffer.duration
  currentTime,    \* the cursor of the chunking loop
  allSegments,    \* the accumulator of the chunking loop
  inflight,       \* remote calls issued and not yet settled
  calls,          \* every payload sent to the remote service, in order
  completed,      \* per settled call: what the service did, what the client made of it
  now,            \* the last value read from Date.now()
  result,         \* the segments the job resolved with
  error,          \* the message the job rejected with
  wav,            \* encodeWAV on its own: its arguments and the buffer it built
  srt,            \* generateSRT on its own: its argument and the text it built
  ui              \* the state of App and FileUploader, and the files downloaded

\* The state of one job of processAudioWithGemini.
jobVars ==
  <<pc, apiKey, audioFile, totalDuration, currentTime, allSegments, inflight,
    calls, completed, now, result, error>>

\* The state outside the job.
sideVars == <<wav, srt, ui>>

vars == <<jobVars, sideVars>>

NoFile == [size |-> 0]
NoError == <<>>
\* totalDuration before there is a resampled buffer.
NotDecoded == 0 - 1

\* encodeWAV has not been called.
NoWav == [pc |-> "idle"]

\* generateSRT has not been called.
NoSrt == [pc |-> "idle"]
\* useState of FileUploader: no error shown.
NoUploaderError == ""
\* The downloads so far: none.
NoDownloads == {}
\* useState of App as it is mounted, with a freshly mounted FileUploader.
NoUi ==
  [status |-> "IDLE", file |-> NoFile, segments |-> <<>>, error |-> NoError,
   uploaderError |-> NoUploaderError, offered |-> NoFile, downloads |-> NoDownloads]
\* Nothing outside the job has happened.
SideIdle == wav = NoWav /\ srt = NoSrt /\ ui = NoUi

\* The job has not been started.
JobIdle ==
  /\ pc = "idle"
  /\ apiKey \in BOOLEAN
  /\ audioFile = NoFile
  /\ totalDuration = NotDecoded
  /\ currentTime = 0
  /\ allSegments = <<>>
  /\ inflight = {}
  /\ calls = <<>>
  /\ completed = <<>>
  /\ now = 0
  /\ result = <<>>
  /\ error = NoError

Init == JobIdle /\ SideIdle

\* processSingleChunk up to its await of generateContent: the payload is sent.
IssueCall(outstanding, p) ==
  /\ inflight' = outstanding \cup {p}
  /\ calls' = Append(calls, p)

\* The head of the while loop with cursor cur and accumulator segs: either the
\* next window is cut, encoded and sent, or the sorted accumulator is returned.
LoopHead(cur, segs, total, outstanding) ==
  IF LoopContinues(cur, total)
  THEN /\ IssueCall(outstanding, ChunkPayload(cur, total))
       /\ pc' = "chunk"
       /\ result' = result
  ELSE /\ inflight' = outstanding
       /\ calls' = calls
       /\ pc' = "done"
       /\ result' = SortByStart(segs)

\* processAudioWithGemini(audioFile), up to its first await.
StartJob(file) ==
  /\ pc = "idle"
  /\ audioFile' = file
  /\ IF ~apiKey
     THEN /\ pc' = "failed"
          /\ error' = MSG_NO_KEY
          /\ UNCHANGED <<inflight, calls>>
     ELSE IF IsSmallFile(file)
     THEN /\ pc' = "single"
          /\ IssueCall(inflight, FilePayload(file))
          /\ error' = error
     ELSE /\ pc' = "decode"
          /\ error' = error
          /\ UNCHANGED <<inflight, calls>>
  /\ UNCHANGED <<apiKey, totalDuration, currentTime, allSegments, completed, now, result>>

\* The single-shot call settles: its segments are returned as they are, or its
\* error goes through the catch of processAudioWithGemini.
SingleChunkSettles(outcome, t) ==
  /\ pc = "single"
  /\ LET ret == processSingleChunk(outcome, t)
     IN /\ completed' = Append(completed, [remote |-> outcome, ret |-> ret])
        /\ inflight' = AwaitCall(inflight, calls[Len(calls)])
        /\ now' = t
        /\ IF ret.ok
           THEN /\ result' = ret.segments
                /\ pc' = "done"
                /\ error' = error
           ELSE /\ error' = RethrowTopLevel(ret.message)
                /\ pc' = "failed"
                /\ result' = result
  /\ UNCHANGED <<apiKey, audioFile, totalDuration, currentTime, allSegments, calls>>

\* decodeAudioData or startRendering rejects.
DecodeFails ==
  /\ pc = "decode"
  /\ pc' = "failed"
  /\ error' = RethrowTopLevel(MSG_DECODE)
  /\ UNCHANGED <<apiKey, audioFile, totalDuration, currentTime, allSegments,
                 inflight, calls, completed, now, result>>

\* Decoding and resampling give a buffer of duration d; the loop starts.
DecodeAndResample(d) ==
  /\ pc = "decode"
  /\ totalDuration' = d
  /\ currentTime' = 0
  /\ allSegments' = <<>>
  /\ LoopHead(0, <<>>, d, inflight)
  /\ UNCHANGED <<apiKey, audioFile, completed, now, error>>

\* Mutant of AbortJob: the failed window is skipped and the loop goes on.
SkipFailedWindow(message, settled) ==
  /\ error' = error
  /\ allSegments' = allSegments
  /\ currentTime' = ChunkEnd(currentTime, totalDuration)
  /\ LoopHead(ChunkEnd(currentTime, totalDuration), allSegments, totalDuration, settled)

\* The catch of the chunking loop followed by that of processAudioWithGemini:
\* the job rejects, nothing more is sent and nothing is returned.
AbortJob(message, settled) ==
  /\ error' = RethrowTopLevel(message)
  /\ pc' = "failed"
  /\ inflight' = settled
  /\ UNCHANGED <<allSegments, currentTime, calls, result>>

\* The call of the current window settles: its segments are offset and
\* appended and the loop goes on, or the loop's catch throws.
ChunkSettles(outcome, t) ==
  /\ pc = "chunk"
  /\ LET ret == processSingleChunk(outcome, t)
         settled == AwaitCall(inflight, calls[Len(calls)])
     IN /\ completed' = Append(completed, [remote |-> outcome, ret |-> ret])
        /\ now' = t
        /\ IF ret.ok
           THEN LET segs == allSegments \o AdjustSegments(ret.segments, currentTime)
                    chunkEnd == ChunkEnd(currentTime, totalDuration)
                IN /\ allSegments' = segs
                   /\ currentTime' = chunkEnd
                   /\ LoopHead(chunkEnd, segs, totalDuration, settled)
                   /\ error' = error
           ELSE AbortJob(ChunkFailureMessage(currentTime), settled)
  /\ UNCHANGED <<apiKey, audioFile, totalDuration>>

\* The values Date.now() can give when the call settles with this outcome: the
\* clock is read in the map over the reply's elements, and never runs back.
ClockReadings(outcome) ==
  IF outcome.kind = "text" /\ outcome.text.kind = "array" /\ outcome.text.items # <<>>
  THEN now..MaxClock
  ELSE {now}

Next ==
  \/ /\ \E size \in FileSizes : StartJob([size |-> size])
     /\ UNCHANGED sideVars
  \/ /\ \E outcome \in RemoteOutcomes(MaxSegments) :
          \E t \in ClockReadings(outcome) : SingleChunkSettles(outcome, t)
     /\ UNCHANGED sideVars
  \/ /\ DecodeFails
     /\ UNCHANGED sideVars
  \/ /\ \E d \in Durations : DecodeAndResample(d)
     /\ UNCHANGED sideVars
  \/ /\ \E outcome \in RemoteOutcomes(MaxSegments - Len(allSegments)) :
          \E t \in ClockReadings(outcome) : ChunkSettles(outcome, t)
     /\ UNCHANGED sideVars

Spec == Init /\ [][Next]_vars

\* ==================================================================
\* Properties
\* ==================================================================
Terminal == pc \in {"done", "failed"}
Started == pc # "idle"
SmallJob == Started /\ audioFile.size < CHUNK_THRESHOLD_BYTES
LargeJob == Started /\ audioFile.size >= CHUNK_THRESHOLD_BYTES
\* The number of 60 s windows that cover a duration of d ticks.
WindowCount(d) == (d + ChunkTicks - 1) \div ChunkTicks
\* The file as it was given, as a payload.
OriginalBytes == [kind |-> "file", size |-> audioFile.size]

\* C1 as stated: once a job with an API key has ended, a file under 2.5 MiB
\* has caused exactly one remote call, on the original bytes, and a file of
\* 2.5 MiB or more exactly one call per window of the decoded duration, in
\* ascending start order.
C1_Original ==
  (Terminal /\ apiKey) =>
    /\ SmallJob =>
         /\ calls = <<OriginalBytes>>
         /\ pc = "done" => result = completed[1].ret.segments
    /\ LargeJob =>
         /\ totalDuration # NotDecoded => Len(calls) = WindowCount(totalDuration)
         /\ \A i \in DOMAIN calls :
              calls[i].kind = "wav" /\ calls[i].start = (i - 1) * ChunkTicks

\* C1 amended: a file under 2.5 MiB causes at most one remote call, on the
\* original bytes and never a decode, and exactly one when the job succeeds,
\* whose parsed segments are the result unmodified; a file of 2.5 MiB or more
\* causes only window calls, in ascending start order with no window skipped
\* and at most one per window, and exactly one per window when the job
\* succeeds.
C1_Routing ==
  /\ SmallJob =>
       /\ Len(calls) <= 1
       /\ \A i \in DOMAIN calls : calls[i] = OriginalBytes
       /\ totalDuration = NotDecoded
       /\ pc = "done" =>
            /\ Len(calls) = 1
            /\ result = completed[1].ret.segments
            /\ result = [i \in 1..Len(completed[1].remote.text.items) |->
                           MapItem(completed[1].remote.text.items[i], now, i - 1)]
  /\ LargeJob =>
       /\ \A i \in DOMAIN calls :
            calls[i].kind = "wav" /\ calls[i].start = (i - 1) * ChunkTicks
       /\ calls # <<>> => Len(calls) <= WindowCount(totalDuration)
       /\ pc = "done" => Len(calls) = WindowCount(totalDuration)

\* A file of exactly 2.5 MiB has gone through the chunked path with several
\* windows and returned segments.
C1_Witness ==
  /\ pc = "done"
  /\ audioFile.size = CHUNK_THRESHOLD_BYTES
  /\ Len(calls) >= 2
  /\ result # <<>>

\* C2: when the remote call of window k fails in the chunked path, the job
\* returns no segments, also none of the windows before k, and ends with one
\* error whose message names the start of window k, (k - 1):00, and the start
\* of no other window.
C2_WindowFailureAborts ==
  (pc = "failed" /\ calls # <<>> /\ calls[Len(calls)].kind = "wav") =>
    LET k == Len(calls)
    IN /\ result = <<>>
       /\ ~completed[k].ret.ok
       /\ error = <<"Failed to process audio segment at ",
                    ToString(k - 1) \o ":00", ". API Error.">>
       /\ \A j \in 1..WindowCount(totalDuration) :
            j # k => formatTime((j - 1) * ChunkTicks) # error[2]

\* The second window failed after the first had returned segments.
C2_Witness ==
  /\ pc = "failed"
  /\ Len(calls) = 2
  /\ calls[2].kind = "wav"
  /\ completed[1].ret.ok
  /\ completed[1].ret.segments # <<>>

\* C3: at most one remote call of the job is outstanding at any time, and it
\* is the last one issued: the call of window k + 1 is issued only when the
\* call of window k has settled.
C3_Serial ==
  /\ Cardinality(inflight) <= 1
  /\ inflight \subseteq {calls[i] : i \in {Len(calls)} \cap DOMAIN calls}
  /\ Len(completed) <= Len(calls)
  /\ Len(calls) <= Len(completed) + 1

\* The call of a later window is outstanding.
C3_Witness ==
  /\ pc = "chunk"
  /\ Len(calls) >= 2
  /\ Cardinality(inflight) = 1

\* C4: the windows cut from a duration D > 0 start at 0, each starts where
\* the one before ends, each but the last is 60 s long, the last is longer
\* than 0 and at most 60 s and ends at D; D <= 60 s gives one window and D a
\* multiple of 60 s gives D / 60 s windows.
C4_Windows ==
  (LargeJob /\ totalDuration > 0) =>
    /\ calls # <<>>
    /\ calls[1].start = 0
    /\ \A i \in DOMAIN calls :
         /\ calls[i].end - calls[i].start > 0
         /\ calls[i].end - calls[i].start <= ChunkTicks
         /\ calls[i].end <= totalDuration
         /\ i < Len(calls) =>
              /\ calls[i].end - calls[i].start = ChunkTicks
              /\ calls[i + 1].start = calls[i].end
    /\ pc = "done" =>
         /\ calls[Len(calls)].end = totalDuration
         /\ totalDuration <= ChunkTicks => Len(calls) = 1
         /\ totalDuration % ChunkTicks = 0 => Len(calls) = totalDuration \div ChunkTicks

\* Three windows were cut from a duration that is no multiple of 60 s.
C4_Witness ==
  /\ pc = "done"
  /\ Len(calls) = 3
  /\ totalDuration % ChunkTicks # 0

\* The segments processSingleChunk returned for window i.
Returned(i) == completed[i].ret.segments
HasTimes(seg) == {"startTime", "endTime"} \subseteq DOMAIN seg
\* The (window, index) pairs of all returned segments.
ReturnedAt == {<<i, j>> \in (DOMAIN completed) \X (1..MaxSegments + 1) : j <= Len(Returned(i))}
\* What a returned segment must look like in the result, its id aside.
Stitched(i, j) ==
  [startTime |-> Returned(i)[j].startTime + calls[i].start,
   endTime |-> Returned(i)[j].endTime + calls[i].start,
   originalText |-> Returned(i)[j].originalText,
   translatedText |-> Returned(i)[j].translatedText]
WithoutId(seg) == [f \in DOMAIN seg \ {"id"} |-> seg[f]]
\* The result holds each returned segment, offset, as often as it was
\* returned, and is in ascending order of startTime.
StitchedAndSorted ==
  /\ Len(result) = Cardinality(ReturnedAt)
  /\ \A k \in DOMAIN result : HasTimes(result[k])
  /\ \A p \in ReturnedAt : HasTimes(Returned(p[1])[p[2]])
  /\ \A p \in ReturnedAt :
       Cardinality({k \in DOMAIN result : WithoutId(result[k]) = Stitched(p[1], p[2])})
         = Cardinality({q \in ReturnedAt : Stitched(q[1], q[2]) = Stitched(p[1], p[2])})
  /\ \A k \in 1..Len(result) - 1 : result[k].startTime <= result[k + 1].startTime

\* C5: when every window succeeds, the result of the chunked path is exactly
\* the segments returned per window, none dropped or duplicated, each with
\* startTime and endTime increased by its window's start and the texts
\* unchanged, in ascending order of startTime.
C5_Stitching == (pc = "done" /\ LargeJob) => StitchedAndSorted

\* Every element of every reply carries the four required fields.
AllRepliesConform ==
  \A i \in DOMAIN completed :
    completed[i].ret.ok =>
      \A j \in DOMAIN completed[i].remote.text.items :
        CopiedFields \subseteq DOMAIN completed[i].remote.text.items[j]

\* The statement of C5 for jobs whose replies all conform to the schema.
StitchingOfConformingReplies ==
  (pc = "done" /\ LargeJob /\ AllRepliesConform) => StitchedAndSorted

\* Segments of two windows were put in order by the sort.
StitchingWitness ==
  /\ pc = "done"
  /\ LargeJob
  /\ AllRepliesConform
  /\ Len(result) = 2
  /\ allSegments # result

\* C6: the ids of the segments a job returns are pairwise distinct, in the
\* single-shot and in the chunked path, also when two windows synthesized the
\* same local id.
C6_DistinctIds ==
  pc = "done" =>
    \A i, j \in DOMAIN result : i # j => result[i].id # result[j].id

\* Two windows synthesized the same local id, and the job returned both.
C6_Witness ==
  /\ pc = "done"
  /\ Len(completed) >= 2
  /\ Returned(1) # <<>>
  /\ Returned(2) # <<>>
  /\ Returned(1)[1].id = Returned(2)[1].id

C8_NoRetry ==
  /\ \A i \in DOMAIN completed :
       ~completed[i].ret.ok =>
         /\ i = Len(calls)
         /\ pc = "failed"
         /\ inflight = {}
         /\ result = <<>>
  /\ \A i, j \in DOMAIN calls : i # j => calls[i] # calls[j]
  /\ \A i \in DOMAIN calls : LargeJob => calls[i].kind = "wav"

\* The second of three windows failed and the third was never sent.
C8_Witness ==
  /\ pc = "failed"
  /\ Len(calls) = 2
  /\ WindowCount(totalDuration) = 3
  /\ ~completed[2].ret.ok

\* C9: when a remote call is rejected with a transport failure, in the
\* single-shot path or for a window, the job's error is the network error
\* that hints at the payload size.
C9_NetworkError ==
  (/\ pc = "failed"
   /\ completed # <<>>
   /\ completed[Len(completed)].remote.kind = "reject"
   /\ completed[Len(completed)].remote.message \in TransportMessages)
    => /\ error = MSG_NETWORK
       /\ Includes(error, " The file size might exceed the API's payload limit.")

\* The declared shape of a reply: an array whose elements all carry the four
\* required fields.
ConformsToSchema(text) ==
  /\ text.kind = "array"
  /\ \A j \in DOMAIN text.items : CopiedFields \subseteq DOMAIN text.items[j]

\* C10: processSingleChunk returns segments exactly for the replies that
\* conform to the declared shape, and fails with a response-format error,
\* returning nothing, for every other reply.
C10_ResponseFormat ==
  \A i \in DOMAIN completed :
    completed[i].remote.kind = "text" =>
      IF ConformsToSchema(completed[i].remote.text)
      THEN completed[i].ret.ok
      ELSE /\ ~completed[i].ret.ok
           /\ completed[i].ret.message \in FormatMessages

\* C15: every window sent in the chunked path holds at most 60 s x 16000 =
\* 960000 samples, so its encoded blob is at most 44 + 1920000 bytes, whatever
\* the file's size and duration.
C15_WindowSize ==
  \A i \in DOMAIN calls :
    calls[i].kind = "wav" =>
      /\ calls[i].endIndex - calls[i].startIndex <= 960000
      /\ calls[i].endIndex - calls[i].startIndex = calls[i].end - calls[i].start
      /\ WavByteLength(calls[i].endIndex - calls[i].startIndex) <= 44 + 1920000

\* A full 60 s window was sent for an input longer than one window.
C15_Witness ==
  /\ Len(calls) >= 2
  /\ calls[1].kind = "wav"
  /\ calls[1].endIndex - calls[1].startIndex = 960000
  /\ totalDuration > 2 * ChunkTicks

\* ==================================================================
\* encodeWAV
\* ==================================================================
\* Longest sample array that is enumerated element by element.
MaxSamples == 2

\* A sample is held in thousandths: 1000 is 1.0.  Some lie outside [-1, 1].
SampleValues == {0 - 1500, 0 - 1000, 0 - 500, 0, 500, 1000, 1500}
\* Lengths of the silent arrays that make the size fields span several bytes.
LongSampleCounts == {300, 33000}
\* The sample arrays given to encodeWAV.
SampleArrays ==
  SeqsUpTo(SampleValues, MaxSamples)
    \cup {[i \in 1..n |-> 0] : n \in LongSampleCounts}
\* The sample rates given to encodeWAV; the chunking loop passes SAMPLE_RATE.
SampleRates == {8000, SAMPLE_RATE, 44100, 48000}

\* Byte k (0 the lowest) of v as DataView.setUint32 / setUint16 store it.
ByteOf(v, k) ==
  CASE k = 0 -> v % 256
    [] k = 1 -> (v \div 256) % 256
    [] k = 2 -> (v \div 65536) % 256
    [] k = 3 -> (v \div 16777216) % 256

\* Mutant of Uint32LE: the bytes in big-endian order.
Uint32BE(v) == <<ByteOf(v, 3), ByteOf(v, 2), ByteOf(v, 1), ByteOf(v, 0)>>

\* view.setUint32(offset, v, true): four bytes, lowest first.
Uint32LE(v) == <<ByteOf(v, 0), ByteOf(v, 1), ByteOf(v, 2), ByteOf(v, 3)>>

\* view.setUint16(offset, v, true): two bytes, lowest first.
Uint16LE(v) == <<ByteOf(v, 0), ByteOf(v, 1)>>

\* The char codes writeString stores.
CODES_RIFF == <<82, 73, 70, 70>>
CODES_WAVE == <<87, 65, 86, 69>>
CODES_FMT == <<102, 109, 116, 32>>
CODES_DATA == <<100, 97, 116, 97>>

\* Math.max(-1, Math.min(1, sample)), in thousandths.
ClampSample(x) == IF x < 0 - 1000 THEN 0 - 1000 ELSE IF x > 1000 THEN 1000 ELSE x

\* s < 0 ? s * 0x8000 : s * 0x7FFF, then the truncation of setInt16.
ScaleSample(x) ==
  IF x < 0 THEN 0 - (((0 - x) * 32768) \div 1000) ELSE (x * 32767) \div 1000

\* view.setInt16(offset, s, true): the two's complement of s, lowest byte first.
Int16LE(v) == Uint16LE((v + 65536) % 65536)

\* Mutant of WavHeader: the container size counts the whole file.
WavHeaderWholeFile(sampleCount, sampleRate) ==
  CODES_RIFF \o Uint32LE(44 + sampleCount * 2) \o CODES_WAVE
    \o CODES_FMT \o Uint32LE(16) \o Uint16LE(1) \o Uint16LE(1)
    \o Uint32LE(sampleRate) \o Uint32LE(sampleRate * 2)
    \o Uint16LE(2) \o Uint16LE(16)
    \o CODES_DATA \o Uint32LE(sampleCount * 2)

\* The 44 bytes encodeWAV writes at offsets 0..43.
WavHeader(sampleCount, sampleRate) ==
  CODES_RIFF \o Uint32LE(36 + sampleCount * 2) \o CODES_WAVE
    \o CODES_FMT \o Uint32LE(16) \o Uint16LE(1) \o Uint16LE(1)
    \o Uint32LE(sampleRate) \o Uint32LE(sampleRate * 2)
    \o Uint16LE(2) \o Uint16LE(16)
    \o CODES_DATA \o Uint32LE(sampleCount * 2)

\* encodeWAV(samples, sampleRate): a zeroed buffer of 44 + 2 x length bytes,
\* the header written over its start, each sample over two bytes from 44 on.
encodeWAV(samples, sampleRate) ==
  LET header == WavHeader(Len(samples), sampleRate)
  IN [o \in 1..WavByteLength(Len(samples)) |->
        IF o <= Len(header) THEN header[o]
        ELSE IF o <= WAV_HEADER_BYTES THEN 0
        ELSE LET i == (o - WAV_HEADER_BYTES + 1) \div 2
                 k == (o - WAV_HEADER_BYTES + 1) % 2
             IN Int16LE(ScaleSample(ClampSample(samples[i])))[2 - k]]

\* encodeWAV is called and returns its blob.
EncodeWav(samples, sampleRate) ==
  /\ wav.pc = "idle"
  /\ wav' = [pc |-> "encoded", samples |-> samples, sampleRate |-> sampleRate,
             type |-> "audio/wav", buffer |-> encodeWAV(samples, sampleRate)]
  /\ UNCHANGED <<jobVars, srt, ui>>

WavNext == \E samples \in SampleArrays, rate \in SampleRates : EncodeWav(samples, rate)

SpecWav == Init /\ [][WavNext]_vars

\* Reading the header back: getUint32 / getUint16 at a byte offset, little-endian.
ReadUint16(buffer, offset) == buffer[offset + 1] + 256 * buffer[offset + 2]
ReadUint32(buffer, offset) ==
  buffer[offset + 1] + 256 * buffer[offset + 2] + 65536 * buffer[offset + 3]
    + 16777216 * buffer[offset + 4]

\* C11: for N samples at rate R encodeWAV gives exactly 44 + 2N bytes whose
\* header reads back, little-endian, as container size 36 + 2N, payload size
\* 2N, sample rate R, byte rate 2R, block align 2, format tag 1, one channel
\* and 16 bits per sample.
C11_WavHeader ==
  wav.pc = "encoded" =>
    LET n == Len(wav.samples)
        r == wav.sampleRate
        b == wav.buffer
    IN /\ Len(b) = 44 + 2 * n
       /\ ReadUint32(b, 4) = 36 + 2 * n
       /\ ReadUint32(b, 40) = 2 * n
       /\ ReadUint32(b, 24) = r
       /\ ReadUint32(b, 28) = 2 * r
       /\ ReadUint16(b, 32) = 2
       /\ ReadUint16(b, 20) = 1
       /\ ReadUint16(b, 22) = 1
       /\ ReadUint16(b, 34) = 16
       /\ \A o \in DOMAIN b : b[o] \in 0..255

\* An array long enough for the size fields to need three bytes was encoded
\* at a rate other than 16 kHz.
C11_Witness ==
  /\ wav.pc = "encoded"
  /\ Len(wav.samples) = 33000
  /\ wav.sampleRate = 44100

\* ==================================================================
\* timeUtils: formatSRTTimestamp and generateSRT
\* ==================================================================
\* Longest segment list given to generateSRT.
MaxSrtSegments == 2

\* Here a time is a number of seconds held in tenths of a millisecond, so
\* that 15 is 0.0015 s.  One day is 864000000.
TenthsPerMs == 10
MsPerSecond == 1000
MsPerMinute == 60 * MsPerSecond
MsPerHour == 60 * MsPerMinute
MsPerDay == 24 * MsPerHour
SrtTimes == {0, 15, 36610015, MsPerDay * TenthsPerMs - 1, MsPerDay * TenthsPerMs}
SrtTexts == {<<"h", "i">>, <<>>}
\* Segments with startTime >= 0 and endTime > startTime.
SrtSegments ==
  {seg \in [id : {"s"}, startTime : SrtTimes, endTime : SrtTimes, originalText : {"o"},
            translatedText : SrtTexts] : seg.endTime > seg.startTime}
SrtSegmentLists == SeqsUpTo(SrtSegments, MaxSrtSegments)

LF == "\n"
DigitChar(d) ==
  CASE d = 0 -> "0" [] d = 1 -> "1" [] d = 2 -> "2" [] d = 3 -> "3" [] d = 4 -> "4"
    [] d = 5 -> "5" [] d = 6 -> "6" [] d = 7 -> "7" [] d = 8 -> "8" [] d = 9 -> "9"

\* Number.prototype.toString of a non-negative integer, one character each.
RECURSIVE DecimalChars(_)
DecimalChars(n) ==
  IF n < 10 THEN <<DigitChar(n)>> ELSE DecimalChars(n \div 10) \o <<DigitChar(n % 10)>>

\* The fixed-width fields of toISOString.
Pad2(n) == <<DigitChar((n \div 10) % 10), DigitChar(n % 10)>>
Pad3(n) == <<DigitChar((n \div 100) % 10), DigitChar((n \div 10) % 10), DigitChar(n % 10)>>

\* new Date(0).setMilliseconds(seconds * 1000): the time value, whole milliseconds.
DateTimeValue(seconds) == seconds \div TenthsPerMs

\* toISOString().substring(11, 23): the time within the day of the date.
IsoTimePart(timeValue) ==
  LET inDay == timeValue % MsPerDay
  IN Pad2(inDay \div MsPerHour) \o <<":">> \o Pad2((inDay % MsPerHour) \div MsPerMinute)
       \o <<":">> \o Pad2((inDay % MsPerMinute) \div MsPerSecond)
       \o <<".">> \o Pad3(inDay % MsPerSecond)

\* String.prototype.replace(a, b) with a and b single characters: the first a only.
RECURSIVE ReplaceFirst(_, _, _)
ReplaceFirst(chars, a, b) ==
  IF chars = <<>> THEN <<>>
  ELSE IF Head(chars) = a THEN <<b>> \o Tail(chars)
  ELSE <<Head(chars)>> \o ReplaceFirst(Tail(chars), a, b)

formatSRTTimestamp(seconds) == ReplaceFirst(IsoTimePart(DateTimeValue(seconds)), ".", ",")

ARROW == <<" ", "-", "-", ">", " ">>

\* The text of one entry: index line, time line, text line.
SrtEntry(segment, index) ==
  DecimalChars(index + 1) \o <<LF>>
    \o formatSRTTimestamp(segment.startTime) \o ARROW \o formatSRTTimestamp(segment.endTime)
    \o <<LF>> \o segment.translatedText \o <<LF>>

\* Array.prototype.join(sep).
RECURSIVE Join(_, _)
Join(parts, sep) ==
  IF parts = <<>> THEN <<>>
  ELSE IF Len(parts) = 1 THEN parts[1]
  ELSE parts[1] \o sep \o Join(Tail(parts), sep)

generateSRT(segments) ==
  Join([i \in 1..Len(segments) |-> SrtEntry(segments[i], i - 1)], <<LF>>)

\* generateSRT is called.
GenerateSrt(segments) ==
  /\ srt.pc = "idle"
  /\ srt' = [pc |-> "generated", segments |-> segments, text |-> generateSRT(segments)]
  /\ UNCHANGED <<jobVars, wav, ui>>

SrtNext == \E segments \in SrtSegmentLists : GenerateSrt(segments)

SpecSrt == Init /\ [][SrtNext]_vars

\* ---- a reader of subtitle files ----
RECURSIVE SplitLines(_)
SplitLines(chars) ==
  IF \A i \in DOMAIN chars : chars[i] # LF THEN <<chars>>
  ELSE LET i == CHOOSE j \in DOMAIN chars :
                  chars[j] = LF /\ \A k \in 1..(j - 1) : chars[k] # LF
       IN <<SubSeq(chars, 1, i - 1)>> \o SplitLines(SubSeq(chars, i + 1, Len(chars)))

IsDigit(c) == \E d \in 0..9 : DigitChar(d) = c
DigitValue(c) == CHOOSE d \in 0..9 : DigitChar(d) = c
IsNumber(chars) == chars # <<>> /\ \A i \in DOMAIN chars : IsDigit(chars[i])
RECURSIVE ParseNumber(_)
ParseNumber(chars) ==
  IF chars = <<>> THEN 0
  ELSE 10 * ParseNumber(SubSeq(chars, 1, Len(chars) - 1)) + DigitValue(chars[Len(chars)])

\* HH:MM:SS,mmm
IsTimestamp(chars) ==
  /\ Len(chars) = 12
  /\ chars[3] = ":" /\ chars[6] = ":" /\ chars[9] = ","
  /\ \A i \in {1, 2, 4, 5, 7, 8, 10, 11, 12} : IsDigit(chars[i])
\* The milliseconds a timestamp stands for.
ParseTimestamp(chars) ==
  ParseNumber(SubSeq(chars, 1, 2)) * MsPerHour + ParseNumber(SubSeq(chars, 4, 5)) * MsPerMinute
    + ParseNumber(SubSeq(chars, 7, 8)) * MsPerSecond + ParseNumber(SubSeq(chars, 10, 12))

IsTimeLine(line) ==
  /\ Len(line) = 29
  /\ SubSeq(line, 13, 17) = ARROW
  /\ IsTimestamp(SubSeq(line, 1, 12))
  /\ IsTimestamp(SubSeq(line, 18, 29))

RECURSIVE Ascending(_)
Ascending(S) ==
  IF S = {} THEN <<>>
  ELSE LET m == CHOOSE x \in S : \A y \in S : x <= y IN <<m>> \o Ascending(S \ {m})

\* The entries of a subtitle file in file order: each time line that follows
\* a number line, with that number and the two times in milliseconds.
ParseSRT(chars) ==
  LET lines == SplitLines(chars)
      at == Ascending({i \in 2..Len(lines) : IsTimeLine(lines[i]) /\ IsNumber(lines[i - 1])})
  IN [k \in 1..Len(at) |->
        [number |-> ParseNumber(lines[at[k] - 1]),
         start |-> ParseTimestamp(SubSeq(lines[at[k]], 1, 12)),
         end |-> ParseTimestamp(SubSeq(lines[at[k]], 18, 29))]]

\* The entries a round trip has to give back for a segment list.
ExpectedEntries(segments) ==
  [k \in 1..Len(segments) |->
     [number |-> k,
      start |-> segments[k].startTime \div TenthsPerMs,
      end |-> segments[k].endTime \div TenthsPerMs]]

\* C12: for every list of segments with startTime >= 0 and endTime > startTime,
\* reading the text of generateSRT back gives entries numbered 1..n in input
\* order whose start and end times are the segments' times to the millisecond.
C12_RoundTrip ==
  srt.pc = "generated" => ParseSRT(srt.text) = ExpectedEntries(srt.segments)

\* The same round trip for lists whose times all lie below 24 hours.
BelowOneDay(segments) ==
  \A k \in DOMAIN segments : segments[k].endTime < MsPerDay * TenthsPerMs
RoundTripBelowOneDay ==
  (srt.pc = "generated" /\ BelowOneDay(srt.segments))
    => ParseSRT(srt.text) = ExpectedEntries(srt.segments)
RoundTripWitness ==
  /\ srt.pc = "generated"
  /\ Len(srt.segments) = 2
  /\ BelowOneDay(srt.segments)
  /\ srt.segments[1].startTime > srt.segments[2].startTime
  /\ srt.segments[1].startTime % TenthsPerMs # 0

\* ==================================================================
\* App and FileUploader
\* ==================================================================
MAX_SIZE_MB == 20
BYTES_PER_MB == 1024 * 1024

\* A MIME type is its sequence of characters.
AUDIO_PREFIX == <<"a", "u", "d", "i", "o", "/">>
VIDEO_PREFIX == <<"v", "i", "d", "e", "o", "/">>
TYPE_AUDIO == AUDIO_PREFIX \o <<"m", "p", "3">>
TYPE_VIDEO == VIDEO_PREFIX \o <<"m", "p", "4">>
TYPE_TEXT == <<"t", "e", "x", "t", "/", "a", "u", "d", "i", "o", "/">>
TYPE_BARE == <<"a", "u", "d", "i", "o">>
TYPE_EMPTY == <<>>

\* The files a user drops or picks: around the chunking threshold and around
\* the upload limit, with types the uploader takes and types it does not.
AppFiles ==
  {[size |-> 1, type |-> TYPE_AUDIO],
   [size |-> CHUNK_THRESHOLD_BYTES, type |-> TYPE_VIDEO],
   [size |-> MAX_SIZE_MB * BYTES_PER_MB, type |-> TYPE_AUDIO],
   [size |-> MAX_SIZE_MB * BYTES_PER_MB + 1, type |-> TYPE_AUDIO],
   [size |-> MAX_SIZE_MB * BYTES_PER_MB + 1, type |-> TYPE_TEXT],
   [size |-> 1, type |-> TYPE_TEXT],
   [size |-> 1, type |-> TYPE_BARE],
   [size |-> 1, type |-> TYPE_EMPTY]}
\* e.dataTransfer.files / e.target.files: empty, one file, or several.
AppFileLists ==
  {<<>>} \cup {<<f>> : f \in AppFiles}
    \cup {<<f, [size |-> 1, type |-> TYPE_AUDIO]>> : f \in AppFiles}
\* The durations a decoded upload has here: empty, and two windows.
AppDurations == {0, ChunkTicks + Sec(5)}
\* The text typed into a textarea of the editor.
EditValues == {"edited"}
EditFields == {"originalText", "translatedText"}

\* String.prototype.startsWith
StartsWith(chars, prefix) ==
  Len(chars) >= Len(prefix) /\ SubSeq(chars, 1, Len(prefix)) = prefix

\* file.type.startsWith('audio/') || file.type.startsWith('video/')
HasMediaType(file) == StartsWith(file.type, AUDIO_PREFIX) \/ StartsWith(file.type, VIDEO_PREFIX)

\* Mutant of ExceedsMaxSize: no file counts as too large.
NeverExceedsMaxSize(file) == FALSE

\* file.size > MAX_SIZE_MB * 1024 * 1024
ExceedsMaxSize(file) == file.size > MAX_SIZE_MB * BYTES_PER_MB

MSG_INVALID_TYPE == "Please upload a valid audio file."
MSG_TOO_LARGE ==
  "File size too large. Please keep it under " \o ToString(MAX_SIZE_MB) \o "MB."
MSG_UNEXPECTED == <<"An unexpected error occurred during processing.">>

\* The try branch of handleFileSelect after its await.
OnResolved(u, generatedSegments) ==
  [u EXCEPT !.segments = generatedSegments, !.status = "COMPLETED"]

\* Mutant of OnRejected: what the loop had gathered is shown as the result.
OnRejectedKeepsPartial(u, message) ==
  [u EXCEPT !.segments = allSegments, !.status = "COMPLETED"]

\* The catch branch of handleFileSelect: err.message || the default text.
OnRejected(u, message) ==
  [u EXCEPT !.status = "ERROR",
            !.error = IF message = <<>> THEN MSG_UNEXPECTED ELSE message]

\* handleFileSelect up to its await: the four setters, then the job starts.
handleFileSelect(u, selectedFile) ==
  /\ ui' = [u EXCEPT !.file = selectedFile, !.status = "PROCESSING",
                     !.error = NoError, !.segments = <<>>]
  /\ StartJob(selectedFile)

\* validateAndSelectFile of the FileUploader, which App renders while IDLE.
validateAndSelectFile(file) ==
  /\ ui.status = "IDLE"
  /\ IF ~HasMediaType(file)
     THEN /\ ui' = [ui EXCEPT !.uploaderError = MSG_INVALID_TYPE, !.offered = file]
          /\ UNCHANGED jobVars
     ELSE IF ExceedsMaxSize(file)
     THEN /\ ui' = [ui EXCEPT !.uploaderError = MSG_TOO_LARGE, !.offered = file]
          /\ UNCHANGED jobVars
     ELSE handleFileSelect([ui EXCEPT !.uploaderError = NoUploaderError, !.offered = file],
                           file)
  /\ UNCHANGED <<wav, srt>>

\* handleDrop: the first dropped file, if there is one.
handleDrop(files) ==
  IF Len(files) > 0 THEN validateAndSelectFile(files[1])
  ELSE ui.status = "IDLE" /\ UNCHANGED vars

\* handleFileInput: the first picked file, if there is one.
handleFileInput(files) ==
  IF Len(files) > 0 THEN validateAndSelectFile(files[1])
  ELSE ui.status = "IDLE" /\ UNCHANGED vars

\* The await of handleFileSelect resumes with the segments of the job.
AwaitResolves ==
  /\ ui.status = "PROCESSING"
  /\ pc = "done"
  /\ ui' = OnResolved(ui, result)
  /\ UNCHANGED <<jobVars, wav, srt>>

\* The await of handleFileSelect throws what the job rejected with.
AwaitRejects ==
  /\ ui.status = "PROCESSING"
  /\ pc = "failed"
  /\ ui' = OnRejected(ui, error)
  /\ UNCHANGED <<jobVars, wav, srt>>

\* { ...seg, [field]: value }
WithField(seg, field, value) ==
  [f \in DOMAIN seg \cup {field} |-> IF f = field THEN value ELSE seg[f]]

\* handleUpdateSegment, called from a textarea of the editor shown while COMPLETED.
handleUpdateSegment(id, field, value) ==
  /\ ui.status = "COMPLETED"
  /\ \E k \in DOMAIN ui.segments : ui.segments[k].id = id
  /\ ui' = [ui EXCEPT !.segments =
              [k \in DOMAIN ui.segments |->
                 IF ui.segments[k].id = id THEN WithField(ui.segments[k], field, value)
                 ELSE ui.segments[k]]]
  /\ UNCHANGED <<jobVars, wav, srt>>

\* The start and end times of a list of segments, where they have them.
TimesOf(segments) ==
  [k \in DOMAIN segments |->
     [f \in DOMAIN segments[k] \cap {"id", "startTime", "endTime"} |-> segments[k][f]]]

\* toISOString throws a RangeError for a date made from a missing time.
ExportThrows(segments) == \E k \in DOMAIN segments : ~HasTimes(segments[k])

\* The buttons of the header are rendered.
ExportVisible(status) == status = "COMPLETED"

\* downloadFile: one more file written, noted with the status it was written
\* in, how many entries it has and whether these are all segments of a job
\* that returned.
downloadFile(u, kind) ==
  [u EXCEPT !.downloads = @ \cup
     {[kind |-> kind, status |-> u.status, entries |-> Len(u.segments),
       whole |-> pc = "done" /\ TimesOf(u.segments) = TimesOf(result)]}]

\* handleDownloadSRT and handleDownloadTXT: nothing without a file or without
\* segments; otherwise the content is built and downloaded.
handleDownload(kind) ==
  /\ ExportVisible(ui.status)
  /\ IF ui.file = NoFile \/ Len(ui.segments) = 0 THEN ui' = ui
     ELSE IF ExportThrows(ui.segments) THEN ui' = ui
     ELSE ui' = downloadFile(ui, kind)
  /\ UNCHANGED <<jobVars, wav, srt>>
handleDownloadSRT == handleDownload("srt")
handleDownloadTXT == handleDownload("txt")

\* handleReset, from Start Over while COMPLETED or Try Again while ERROR.  The
\* uploader is mounted anew, and the settled job is let go of.
handleReset ==
  /\ ui.status \in {"COMPLETED", "ERROR"}
  /\ ui' = [NoUi EXCEPT !.downloads = ui.downloads]
  /\ pc' = "idle"
  /\ audioFile' = NoFile
  /\ totalDuration' = NotDecoded
  /\ currentTime' = 0
  /\ allSegments' = <<>>
  /\ inflight' = {}
  /\ calls' = <<>>
  /\ completed' = <<>>
  /\ result' = <<>>
  /\ error' = NoError
  /\ UNCHANGED <<apiKey, now, wav, srt>>

AppNext ==
  \/ \E files \in AppFileLists : handleDrop(files)
  \/ \E files \in AppFileLists : handleFileInput(files)
  \/ /\ \E outcome \in RemoteOutcomes(1) :
          \E t \in ClockReadings(outcome) : SingleChunkSettles(outcome, t)
     /\ UNCHANGED sideVars
  \/ /\ DecodeFails
     /\ UNCHANGED sideVars
  \/ /\ \E d \in AppDurations : DecodeAndResample(d)
     /\ UNCHANGED sideVars
  \/ /\ \E outcome \in RemoteOutcomes(1) :
          \E t \in ClockReadings(outcome) : ChunkSettles(outcome, t)
     /\ UNCHANGED sideVars
  \/ AwaitResolves
  \/ AwaitRejects
  \/ \E k \in DOMAIN ui.segments, field \in EditFields, value \in EditValues :
       handleUpdateSegment(ui.segments[k].id, field, value)
  \/ handleDownloadSRT
  \/ handleDownloadTXT
  \/ handleReset

SpecApp == Init /\ [][AppNext]_vars

\* ---- properties of the upload gate and of the exports ----
\* A file of at most 20 MiB whose declared type starts with audio/ or video/.
WithinUploadLimits(file) ==
  /\ file.size <= 20 * 1048576
  /\ \E major \in {<<"a", "u", "d", "i", "o">>, <<"v", "i", "d", "e", "o">>} :
       /\ Len(file.type) > 5
       /\ \A i \in 1..5 : file.type[i] = major[i]
       /\ file.type[6] = "/"
\* One of the two messages the uploader shows.
HumanReadable(message) == message \in {MSG_INVALID_TYPE, MSG_TOO_LARGE}

\* C13: a file reaches handleFileSelect, and so the job, only if it is at
\* most 20 MiB and its type starts with audio/ or video/; any other file that
\* is dropped or picked leaves a human-readable error in the uploader and
\* starts nothing.
C13_UploadGate ==
  /\ Started => WithinUploadLimits(audioFile)
  /\ ui.file # NoFile => WithinUploadLimits(ui.file)
  /\ (ui.offered # NoFile /\ ~WithinUploadLimits(ui.offered)) =>
       /\ HumanReadable(ui.uploaderError)
       /\ ui.status = "IDLE"
       /\ ui.file = NoFile
       /\ ~Started
       /\ calls = <<>>

\* An audio file one byte over 20 MiB was offered and turned away.
C13_Witness ==
  /\ ui.offered = [size |-> 20971521, type |-> TYPE_AUDIO]
  /\ ui.uploaderError = MSG_TOO_LARGE
  /\ pc = "idle"

\* The job returned, every call it made was answered and accepted, and the
\* calls cover the file: the one call of a small file, every window of a
\* large one.
JobReturnedInFull ==
  /\ pc = "done"
  /\ inflight = {}
  /\ Len(completed) = Len(calls)
  /\ \A i \in DOMAIN completed : completed[i].ret.ok
  /\ SmallJob => Len(calls) = 1
  /\ LargeJob => Len(calls) = WindowCount(totalDuration)

\* C14: every export that wrote a file did so while the status was COMPLETED
\* and wrote the segments of a job that returned; the status is COMPLETED
\* only after the whole job returned; after a failed job the status is ERROR
\* with an empty segment list, and outside COMPLETED there is nothing to
\* export.
C14_NoPartialExport ==
  /\ \A d \in ui.downloads : d.status = "COMPLETED" /\ d.whole /\ d.entries > 0
  /\ ui.status = "COMPLETED" =>
       /\ JobReturnedInFull
       /\ TimesOf(ui.segments) = TimesOf(result)
  /\ ui.status = "ERROR" =>
       /\ pc = "failed"
       /\ ui.segments = <<>>
       /\ ui.error = error /\ ui.error # NoError
  /\ (pc = "failed" /\ ui.status # "PROCESSING") => ui.status = "ERROR"
  /\ ui.status # "COMPLETED" => ui.segments = <<>> /\ ~ExportVisible(ui.status)

\* After an export from an earlier job, a later job failed at its second
\* window with the segments of its first window already gathered.
C14_Witness ==
  /\ ui.status = "ERROR"
  /\ allSegments # <<>>
  /\ Len(calls) = 2
  /\ ui.segments = <<>>
  /\ \E d \in ui.downloads : d.kind = "srt"

====
